---- MODULE Spec2Model ----
(***************************************************************************)
(* The canvas tool of basic_memory (mcp/tools/canvas.py): one coroutine,   *)
(* canvas(nodes, edges, title, folder, project), that resolves a project,  *)
(* serialises {"nodes": ..., "edges": ...} with json.dumps(indent=2), PUTs *)
(* the text to {project_url}/resource/{folder}/{title}.canvas and returns  *)
(* a two-line summary.                                                     *)
(*                                                                         *)
(* Python str values are TLA+ strings (Len, \o and SubSeq act on them as   *)
(* on sequences of characters).  JSON values are tagged records:           *)
(*   [t |-> "str", s |-> ...]   a str                                      *)
(*   [t |-> "int", n |-> ...]   an int                                     *)
(*   [t |-> "lit", w |-> ...]   true / false / null                        *)
(*   [t |-> "list", items |-> <<v1, ..., vk>>]                             *)
(*   [t |-> "dict", pairs |-> << <<k1, v1>>, ..., <<kn, vn>> >>]           *)
(* a dict keeps its insertion order and its keys are distinct, as in       *)
(* Python.  Optional[str] is <<>> for None and <<s>> for a given string.   *)
(***************************************************************************)
EXTENDS Integers, Sequences, FiniteSets, TLC

-----------------------------------------------------------------------------
(* Values *)

S(s) == [t |-> "str", s |-> s]
I(n) == [t |-> "int", n |-> n]
L(items) == [t |-> "list", items |-> items]
D(pairs) == [t |-> "dict", pairs |-> pairs]

None == <<>>
Some(s) == <<s>>

-----------------------------------------------------------------------------
(* str *)

\* s[i] (1-based), and "" beyond either end of s
Ch(s, i) == IF i >= 1 /\ i <= Len(s) THEN SubSeq(s, i, i) ELSE ""

\* str.endswith(suffix)
EndsWith(s, suffix) ==
    /\ Len(s) >= Len(suffix)
    /\ SubSeq(s, Len(s) - Len(suffix) + 1, Len(s)) = suffix

\* sep.join(parts)
RECURSIVE Join(_, _)
Join(parts, sep) ==
    IF parts = <<>> THEN ""
    ELSE IF Len(parts) = 1 THEN parts[1]
    ELSE parts[1] \o sep \o Join(Tail(parts), sep)

-----------------------------------------------------------------------------
(* json.dumps(obj, indent=2) *)

Digits == <<"0", "1", "2", "3", "4", "5", "6", "7", "8", "9">>

RECURSIVE NatToStr(_)
NatToStr(n) ==
    IF n < 10 THEN Digits[n + 1]
    ELSE NatToStr(n \div 10) \o Digits[(n % 10) + 1]

\* str(n) of an int
IntToStr(n) == IF n < 0 THEN "-" \o NatToStr(0 - n) ELSE NatToStr(n)

\* one character of a str inside a JSON string literal (ensure_ascii escapes;
\* the characters modelled are ASCII)
EscapeChar(c) ==
    IF c = "\"" THEN "\\\""
    ELSE IF c = "\\" THEN "\\\\"
    ELSE IF c = "\n" THEN "\\n"
    ELSE IF c = "\t" THEN "\\t"
    ELSE IF c = "\r" THEN "\\r"
    ELSE c

\* the escaped characters of s[lo..hi], in order
RECURSIVE EscapeRange(_, _, _)
EscapeRange(s, lo, hi) ==
    IF lo > hi THEN ""
    ELSE IF lo = hi THEN EscapeChar(Ch(s, lo))
    ELSE LET mid == (lo + hi) \div 2
         IN  EscapeRange(s, lo, mid) \o EscapeRange(s, mid + 1, hi)

\* the JSON string literal of a str
EncodeStr(s) == "\"" \o EscapeRange(s, 1, Len(s)) \o "\""

RECURSIVE Spaces(_)
Spaces(n) == IF n <= 0 THEN "" ELSE " " \o Spaces(n - 1)

\* the line break json.dumps puts before an item at nesting depth `level`
NewlineIndent(level) == "\n" \o Spaces(2 * level)

RECURSIVE Encode(_, _)
RECURSIVE EncodeItems(_, _)
RECURSIVE EncodePairs(_, _)

EncodeItems(items, level) ==
    IF Len(items) = 1 THEN Encode(items[1], level)
    ELSE Encode(items[1], level) \o "," \o NewlineIndent(level)
             \o EncodeItems(Tail(items), level)

EncodePairs(pairs, level) ==
    LET first == EncodeStr(pairs[1][1]) \o ": " \o Encode(pairs[1][2], level)
    IN  IF Len(pairs) = 1 THEN first
        ELSE first \o "," \o NewlineIndent(level)
                 \o EncodePairs(Tail(pairs), level)

\* the text of value v, itself at nesting depth `level`
Encode(v, level) ==
    IF v.t = "str" THEN EncodeStr(v.s)
    ELSE IF v.t = "int" THEN IntToStr(v.n)
    ELSE IF v.t = "lit" THEN v.w
    ELSE IF v.t = "list" THEN
        IF v.items = <<>> THEN "[]"
        ELSE "[" \o NewlineIndent(level + 1) \o EncodeItems(v.items, level + 1)
                 \o NewlineIndent(level) \o "]"
    ELSE
        IF v.pairs = <<>> THEN "{}"
        ELSE "{" \o NewlineIndent(level + 1) \o EncodePairs(v.pairs, level + 1)
                 \o NewlineIndent(level) \o "}"

dumps(obj) == Encode(obj, 0)

-----------------------------------------------------------------------------
(* json.loads(text), as response.json() and the resource API use it *)

Fail == [ok |-> FALSE, val |-> [t |-> "none"], pos |-> 0]
Ok(v, p) == [ok |-> TRUE, val |-> v, pos |-> p]

Whitespace == {" ", "\n", "\t", "\r"}

RECURSIVE SkipWs(_, _)
SkipWs(s, i) == IF Ch(s, i) \in Whitespace THEN SkipWs(s, i + 1) ELSE i

DigitChars == {Digits[k] : k \in 1..10}
DigitVal(c) == (CHOOSE k \in 1..10 : Digits[k] = c) - 1

\* the digits from position i on: acc is the value read so far
RECURSIVE ScanDigits(_, _, _)
ScanDigits(s, i, acc) ==
    IF Ch(s, i) \in DigitChars
    THEN ScanDigits(s, i + 1, 10 * acc + DigitVal(Ch(s, i)))
    ELSE [n |-> acc, pos |-> i]

\* an integer at position i: -?(0|[1-9][0-9]*), with no fraction or exponent
ParseInt(s, i) ==
    LET neg == Ch(s, i) = "-"
        j == IF neg THEN i + 1 ELSE i
        d == ScanDigits(s, j, 0)
    IN  IF Ch(s, j) \notin DigitChars THEN Fail
        ELSE IF Ch(s, j) = "0" /\ Ch(s, j + 1) \in DigitChars THEN Fail
        ELSE IF Ch(s, d.pos) \in {".", "e", "E"} THEN Fail
        ELSE Ok(I(IF neg THEN 0 - d.n ELSE d.n), d.pos)

Escapes == {"\"", "\\", "/", "n", "t", "r"}

Unescaped(e) ==
    IF e = "n" THEN "\n" ELSE IF e = "t" THEN "\t" ELSE IF e = "r" THEN "\r" ELSE e

\* the rest of a string literal from position i on, up to its closing quote;
\* acc holds the characters read so far.  A raw control character, an unknown
\* escape and the end of the text are errors
RECURSIVE ScanRest(_, _, _)
ScanRest(s, i, acc) ==
    LET c == Ch(s, i)
    IN  IF c = "" THEN Fail
        ELSE IF c = "\"" THEN Ok(S(acc), i + 1)
        ELSE IF c = "\\" THEN
            IF Ch(s, i + 1) \in Escapes
            THEN ScanRest(s, i + 2, acc \o Unescaped(Ch(s, i + 1)))
            ELSE Fail
        ELSE IF c \in {"\n", "\t", "\r"} THEN Fail
        ELSE ScanRest(s, i + 1, acc \o c)

\* the string literal whose characters start at position i (after the opening
\* quote)
ScanStr(s, i) == ScanRest(s, i, "")

\* d[k] = v on an insertion-ordered dict: a key already present keeps its place
PutKey(pairs, k, v) ==
    IF \E j \in 1..Len(pairs) : pairs[j][1] = k
    THEN [j \in 1..Len(pairs) |-> IF pairs[j][1] = k THEN <<k, v>> ELSE pairs[j]]
    ELSE Append(pairs, <<k, v>>)

RECURSIVE Decode(_, _)
RECURSIVE DecodeItems(_, _, _)
RECURSIVE DecodePairs(_, _, _)

\* the items of an array from position i (at an item) on
DecodeItems(s, i, acc) ==
    LET r == Decode(s, i)
        j == SkipWs(s, r.pos)
    IN  IF ~r.ok THEN Fail
        ELSE IF Ch(s, j) = "," THEN DecodeItems(s, j + 1, Append(acc, r.val))
        ELSE IF Ch(s, j) = "]" THEN Ok(L(Append(acc, r.val)), j + 1)
        ELSE Fail

\* the members of an object from position i (at a key, after whitespace) on
DecodePairs(s, i, acc) ==
    LET k == IF Ch(s, i) = "\"" THEN ScanStr(s, i + 1) ELSE Fail
        c == SkipWs(s, k.pos)
        r == Decode(s, c + 1)
        j == SkipWs(s, r.pos)
    IN  IF ~k.ok THEN Fail
        ELSE IF Ch(s, c) # ":" THEN Fail
        ELSE IF ~r.ok THEN Fail
        ELSE IF Ch(s, j) = ","
            THEN DecodePairs(s, SkipWs(s, j + 1), PutKey(acc, k.val.s, r.val))
        ELSE IF Ch(s, j) = "}" THEN Ok(D(PutKey(acc, k.val.s, r.val)), j + 1)
        ELSE Fail

Literals == {"true", "false", "null"}

\* word w stands in s at position i
WordAt(s, i, w) ==
    /\ i >= 1
    /\ i + Len(w) - 1 <= Len(s)
    /\ SubSeq(s, i, i + Len(w) - 1) = w

\* the value that starts at position i, after whitespace
Decode(s, i) ==
    LET j == SkipWs(s, i)
        c == Ch(s, j)
    IN  IF c = "\"" THEN ScanStr(s, j + 1)
        ELSE IF c = "-" \/ c \in DigitChars THEN ParseInt(s, j)
        ELSE IF c = "[" THEN
            IF Ch(s, SkipWs(s, j + 1)) = "]"
            THEN Ok(L(<<>>), SkipWs(s, j + 1) + 1)
            ELSE DecodeItems(s, j + 1, <<>>)
        ELSE IF c = "{" THEN
            IF Ch(s, SkipWs(s, j + 1)) = "}"
            THEN Ok(D(<<>>), SkipWs(s, j + 1) + 1)
            ELSE DecodePairs(s, SkipWs(s, j + 1), <<>>)
        ELSE IF \E w \in Literals : WordAt(s, j, w)
            THEN LET w == CHOOSE w \in Literals : WordAt(s, j, w)
                 IN  Ok([t |-> "lit", w |-> w], j + Len(w))
        ELSE Fail

\* json.loads(text): ok is FALSE where Python raises JSONDecodeError
loads(text) ==
    LET r == Decode(text, 1)
    IN  IF r.ok /\ SkipWs(text, r.pos) = Len(text) + 1 THEN r ELSE Fail

-----------------------------------------------------------------------------
(* The body of canvas(), statement by statement *)

HTTP_CREATED == 201

\* a variant that appends the extension whatever the title ends with
file_title_always_append(title) == title \o ".canvas"

\* file_title = title if title.endswith(".canvas") else f"{title}.canvas"
file_title(title) ==
    IF EndsWith(title, ".canvas") THEN title ELSE title \o ".canvas"

\* a variant that joins as a path join does: no separator after an empty folder
\* or after a folder that already ends with one
file_path_joined(folder, title) ==
    IF folder = "" \/ EndsWith(folder, "/")
    THEN folder \o file_title(title)
    ELSE folder \o "/" \o file_title(title)

\* file_path = f"{folder}/{file_title}"
file_path(folder, title) == folder \o "/" \o file_title(title)

\* the "id" of a node or edge, when it has one
IdOf(v) ==
    IF \E k \in 1..Len(v.pairs) : v.pairs[k][1] = "id"
    THEN v.pairs[CHOOSE k \in 1..Len(v.pairs) : v.pairs[k][1] = "id"][2]
    ELSE [t |-> "none"]

\* the items without those whose id repeats the id of an earlier item
RECURSIVE UniqueIds(_)
UniqueIds(items) ==
    IF items = <<>> THEN <<>>
    ELSE LET init == UniqueIds(SubSeq(items, 1, Len(items) - 1))
             last == items[Len(items)]
         IN  IF \E k \in 1..Len(init) : IdOf(init[k]) = IdOf(last)
             THEN init
             ELSE Append(init, last)

\* a variant that keeps one node and one edge per id
canvas_data_unique_ids(nodes, edges) ==
    D(<< <<"nodes", L(UniqueIds(nodes))>>, <<"edges", L(UniqueIds(edges))>> >>)

\* canvas_data = {"nodes": nodes, "edges": edges}
canvas_data(nodes, edges) ==
    D(<< <<"nodes", L(nodes)>>, <<"edges", L(edges)>> >>)

\* canvas_json = json.dumps(canvas_data, indent=2)
canvas_json(nodes, edges) == dumps(canvas_data(nodes, edges))

\* f"{project_url}/resource/{file_path}"
resource_url(project_url, path) == project_url \o "/resource/" \o path

\* a variant that takes 200 for the one status of an update
action_unless_200(status_code) ==
    IF status_code = 200 THEN "Updated" ELSE "Created"

\* action = "Created" if response.status_code == 201 else "Updated"
action(status_code) ==
    IF status_code = HTTP_CREATED THEN "Created" ELSE "Updated"

\* "\n".join([f"# {action}: {file_path}", "\nThe canvas is ready to open in Obsidian."])
summary(act, path) ==
    Join(<<"# " \o act \o ": " \o path,
           "\nThe canvas is ready to open in Obsidian.">>, "\n")

-----------------------------------------------------------------------------
(* The collaborators canvas() awaits *)

KnownProjects == {"main", "work"}

\* get_active_project(client, context, project_override): the named project when
\* one is named, the session's active project otherwise; an unknown name, or no
\* name and no active project, is an error
get_active_project(project_override, session) ==
    LET chosen == IF project_override # None THEN project_override ELSE session
    IN  IF chosen = None \/ chosen[1] \notin KnownProjects
        THEN [ok |-> FALSE, name |-> "", project_url |-> ""]
        ELSE [ok |-> TRUE, name |-> chosen[1], project_url |-> "/" \o chosen[1]]

IsSuccess(status_code) == status_code \in 200..299

\* what the HTTP exchange of one PUT can end in
Transport == [kind |-> "transport", status_code |-> 0, body |-> ""]
Response(status_code, body) ==
    [kind |-> "response", status_code |-> status_code, body |-> body]
NoReply == [kind |-> "none", status_code |-> 0, body |-> ""]

\* call_put raises instead of returning the response
call_put_raises(reply) ==
    reply.kind = "transport" \/ ~IsSuccess(reply.status_code)

\* the status the resource API answers a PUT that it stores: 201 for a file
\* that did not exist, 200 for one that is replaced
StoreStatus(url, files) == IF url \in DOMAIN files THEN 200 ELSE HTTP_CREATED

-----------------------------------------------------------------------------
(* Bounds and inputs *)

NumInvocations == 2
MaxNodes == 2
MaxEdges == 1

Invocations == 1..NumInvocations

TextNode ==
    D(<< <<"id", S("n1")>>, <<"type", S("text")>>, <<"x", I(0)>>,
         <<"y", I(-20)>>, <<"width", I(400)>>, <<"height", I(300)>>,
         <<"text", S("say \"hi\"\\\n")>> >>)
FileNode ==
    D(<< <<"type", S("file")>>, <<"id", S("n2")>>,
         <<"file", S("folder/Document Name.md")>>, <<"color", S("1")>>,
         <<"x", I(15)>> >>)
\* shares its id with TextNode and has no other field
BareNode == D(<< <<"id", S("n1")>> >>)
EmptyNode == D(<<>>)

Edge1 ==
    D(<< <<"id", S("e1")>>, <<"fromNode", S("n1")>>, <<"toNode", S("n2")>>,
         <<"fromSide", S("right")>>, <<"label", S("connects to")>> >>)
\* shares its id with Edge1 and names a node no request declares
DanglingEdge ==
    D(<< <<"id", S("e1")>>, <<"toNode", S("n1")>>, <<"fromNode", S("ghost")>> >>)

NodePool == {TextNode, BareNode, EmptyNode}
EdgePool == {Edge1, DanglingEdge}

SeqsUpTo(pool, n) == UNION {[1..k -> pool] : k \in 0..n}

Titles == {"Map", "Map.canvas", "Map.CANVAS", ".canvas", "my.canvas.old"}
Folders == {"diagrams", "", "projects/2025/", "/visual//maps"}
Projects == {None, Some("work"), Some("missing-project")}

Request(nodes, edges, title, folder, project) ==
    [nodes |-> nodes, edges |-> edges, title |-> title, folder |-> folder,
     project |-> project]

\* the requests of the concurrent specification
Requests ==
    { Request(<<>>, <<>>, "Map", "diagrams", None),
      Request(<<TextNode>>, <<DanglingEdge>>, "Map.canvas", "diagrams", Some("work")),
      Request(<<>>, <<>>, "Map", "", Some("missing-project")) }

\* the requests of the single-invocation specification: every title, folder and
\* project with two documents, and every document at one destination
WideRequests ==
    {Request(n, <<>>, t, f, p) :
        n \in {<<>>, <<FileNode>>}, t \in Titles, f \in Folders, p \in Projects}
    \cup
    {Request(n, e, "Map", "diagrams", None) :
        n \in SeqsUpTo(NodePool, MaxNodes), e \in SeqsUpTo(EdgePool, MaxEdges)}

SuccessStatus == {200, 201, 202, 204}
Bodies == {"{\"ok\": true}", ""}

\* the ways a PUT ends in call_put raising
FailedReplies == {Transport, Response(404, "{}"), Response(500, ""), Response(302, "")}

NoArgs == Request(<<>>, <<>>, "", "", None)
NoLocals == [project_url |-> "", file_path |-> "", canvas_json |-> ""]
NoOutcome == [kind |-> "none", value |-> ""]

-----------------------------------------------------------------------------
(* State *)

VARIABLES
    session_project,  \* the process-wide active project: None or Some(name)
    store,            \* the resource store: url -> file content
    pc,               \* per invocation: idle, resolving, putting, returned, raised
    args,             \* per invocation: the arguments of the call
    resolution,       \* per invocation: what get_active_project answered
    locals,           \* per invocation: project_url, file_path, canvas_json
    puts,             \* per invocation: the sequence of PUTs handed to call_put
    reply,            \* per invocation: what its PUT ended in
    written,          \* per invocation: the file content right after its write
    outcome           \* per invocation: the summary returned or the error raised

vars == <<session_project, store, pc, args, resolution, locals, puts, reply,
          written, outcome>>

Pending == [state |-> "pending", name |-> "", project_url |-> ""]

Init ==
    /\ session_project \in {None, Some("main")}
    /\ store = <<>>
    /\ pc = [i \in Invocations |-> "idle"]
    /\ args = [i \in Invocations |-> NoArgs]
    /\ resolution = [i \in Invocations |-> Pending]
    /\ locals = [i \in Invocations |-> NoLocals]
    /\ puts = [i \in Invocations |-> <<>>]
    /\ reply = [i \in Invocations |-> NoReply]
    /\ written = [i \in Invocations |-> None]
    /\ outcome = [i \in Invocations |-> NoOutcome]

-----------------------------------------------------------------------------
(* Steps: an invocation runs from one await to the next *)

\* the session's active project is switched (or cleared) by the host
SwitchProject(p) ==
    /\ p \in {None} \cup {Some(k) : k \in KnownProjects}
    /\ p # session_project
    /\ session_project' = p
    /\ UNCHANGED <<store, pc, args, resolution, locals, puts, reply, written, outcome>>

\* canvas(...) is called and suspends in get_active_project
Call(i, r) ==
    /\ pc[i] = "idle"
    /\ pc' = [pc EXCEPT ![i] = "resolving"]
    /\ args' = [args EXCEPT ![i] = r]
    /\ UNCHANGED <<session_project, store, resolution, locals, puts, reply,
                   written, outcome>>

\* lines 139-153 for invocation i: the path and the document are built from the
\* arguments and the PUT for base_url is handed to call_put, where canvas()
\* suspends again
HandToCallPut(i, base_url, nodes, edges) ==
    LET path == file_path(args[i].folder, args[i].title)
        text == canvas_json(nodes, edges)
    IN  /\ locals' = [locals EXCEPT ![i] =
               [project_url |-> base_url, file_path |-> path, canvas_json |-> text]]
        /\ puts' = [puts EXCEPT ![i] =
               Append(@, [url |-> resource_url(base_url, path), json |-> text])]
        /\ pc' = [pc EXCEPT ![i] = "putting"]
        /\ UNCHANGED <<session_project, store, args, reply, written, outcome>>

\* a variant that recovers from the error with the project "main"
ResolveRaises_fallback(i) ==
    /\ pc[i] = "resolving"
    /\ ~get_active_project(args[i].project, session_project).ok
    /\ resolution' = [resolution EXCEPT ![i] = [Pending EXCEPT !.state = "error"]]
    /\ HandToCallPut(i, "/main", args[i].nodes, args[i].edges)

\* get_active_project raises: the error leaves canvas() at the await
ResolveRaises(i) ==
    /\ pc[i] = "resolving"
    /\ ~get_active_project(args[i].project, session_project).ok
    /\ resolution' = [resolution EXCEPT ![i] = [Pending EXCEPT !.state = "error"]]
    /\ pc' = [pc EXCEPT ![i] = "raised"]
    /\ outcome' = [outcome EXCEPT ![i] =
                      [kind |-> "raise", value |-> "ProjectResolutionError"]]
    /\ UNCHANGED <<session_project, store, args, locals, puts, reply, written>>

ResolutionOf(ap) ==
    [state |-> "ok", name |-> ap.name, project_url |-> ap.project_url]

\* a variant that addresses the write by the session's active project instead
\* of the project resolved for the invocation
Resolved_session_url(i) ==
    LET ap == get_active_project(args[i].project, session_project)
    IN  /\ pc[i] = "resolving"
        /\ ap.ok
        /\ resolution' = [resolution EXCEPT ![i] = ResolutionOf(ap)]
        /\ HandToCallPut(i, IF session_project = None THEN ""
                            ELSE "/" \o session_project[1],
                         args[i].nodes, args[i].edges)

\* the nodes (what = "nodes") or edges of the invocations before k that have
\* handed a PUT to call_put, in the order of the invocations
RECURSIVE Accumulated(_, _)
Accumulated(k, what) ==
    IF k = 0 THEN <<>>
    ELSE Accumulated(k - 1, what)
            \o (IF k \in Invocations /\ puts[k] # <<>> THEN args[k][what] ELSE <<>>)

\* a variant whose canvas_data is one module-level dict that every invocation
\* extends in place
Resolved_shared_canvas_data(i) ==
    LET ap == get_active_project(args[i].project, session_project)
    IN  /\ pc[i] = "resolving"
        /\ ap.ok
        /\ resolution' = [resolution EXCEPT ![i] = ResolutionOf(ap)]
        /\ HandToCallPut(i, ap.project_url,
                         Accumulated(NumInvocations, "nodes") \o args[i].nodes,
                         Accumulated(NumInvocations, "edges") \o args[i].edges)

\* get_active_project returns the project: project_url is taken from it and
\* lines 141-153 run up to the await of call_put
Resolved(i) ==
    LET ap == get_active_project(args[i].project, session_project)
    IN  /\ pc[i] = "resolving"
        /\ ap.ok
        /\ resolution' = [resolution EXCEPT ![i] = ResolutionOf(ap)]
        /\ HandToCallPut(i, ap.project_url, args[i].nodes, args[i].edges)

\* the error call_put raised, by its name in the error taxonomy
PutError(r) ==
    [kind |-> "raise",
     value |-> IF r.kind = "transport" THEN "TransportError" ELSE "RemoteWriteError"]

\* a variant that issues the PUT again when call_put raises
PutRaises_retry(i, r) ==
    /\ pc[i] = "putting"
    /\ call_put_raises(r)
    /\ reply' = [reply EXCEPT ![i] = r]
    /\ puts' = [puts EXCEPT ![i] = Append(@, puts[i][Len(puts[i])])]
    /\ UNCHANGED <<session_project, store, pc, args, resolution, locals, written,
                   outcome>>

\* a variant that catches the error of call_put and reports the canvas as updated
PutRaises_recover(i, r) ==
    /\ pc[i] = "putting"
    /\ call_put_raises(r)
    /\ reply' = [reply EXCEPT ![i] = r]
    /\ pc' = [pc EXCEPT ![i] = "returned"]
    /\ outcome' = [outcome EXCEPT ![i] =
          [kind |-> "return", value |-> summary("Updated", locals[i].file_path)]]
    /\ UNCHANGED <<session_project, store, args, resolution, locals, puts, written>>

\* call_put raises (transport failure or non-success status): the error leaves
\* canvas() at the await
PutRaises(i, r) ==
    /\ pc[i] = "putting"
    /\ call_put_raises(r)
    /\ reply' = [reply EXCEPT ![i] = r]
    /\ pc' = [pc EXCEPT ![i] = "raised"]
    /\ outcome' = [outcome EXCEPT ![i] = PutError(r)]
    /\ UNCHANGED <<session_project, store, args, resolution, locals, puts, written>>

\* the store replaces the file by the text sent (the resource API decodes the
\* JSON-encoded str of the request body back to that text) and call_put returns
\* the response: the body is parsed and logged, and the summary is built from
\* the status code
PutReturns(i, status_code, body) ==
    LET req == puts[i][Len(puts[i])]
        content == req.json
        result == loads(body)
    IN  /\ pc[i] = "putting"
        /\ ~call_put_raises(Response(status_code, body))
        /\ store' = (req.url :> content) @@ store
        /\ written' = [written EXCEPT ![i] = Some(content)]
        /\ reply' = [reply EXCEPT ![i] = Response(status_code, body)]
        /\ IF result.ok
           THEN /\ pc' = [pc EXCEPT ![i] = "returned"]
                /\ outcome' = [outcome EXCEPT ![i] =
                      [kind |-> "return",
                       value |-> summary(action(status_code), locals[i].file_path)]]
           ELSE /\ pc' = [pc EXCEPT ![i] = "raised"]
                /\ outcome' = [outcome EXCEPT ![i] =
                      [kind |-> "raise", value |-> "JSONDecodeError"]]
        /\ UNCHANGED <<session_project, args, resolution, locals, puts>>

\* the resource API answers 201 or 200 as StoreStatus says
Step(i) ==
    \/ ResolveRaises(i)
    \/ Resolved(i)
    \/ \E r \in {Transport, Response(500, "")} : PutRaises(i, r)
    \/ \E b \in Bodies :
          /\ puts[i] # <<>>
          /\ PutReturns(i, StoreStatus(puts[i][Len(puts[i])].url, store), b)

\* any number of invocations, interleaved at their awaits
Next ==
    \/ \E p \in {None} \cup {Some(k) : k \in KnownProjects} : SwitchProject(p)
    \/ \E i \in Invocations : \E r \in Requests : Call(i, r)
    \/ \E i \in Invocations : Step(i)

Spec == Init /\ [][Next]_vars

\* one invocation, over the wide input sets and every reply
NextSingle ==
    \/ \E p \in {None} \cup {Some(k) : k \in KnownProjects} : SwitchProject(p)
    \/ \E r \in WideRequests : Call(1, r)
    \/ ResolveRaises(1)
    \/ Resolved(1)
    \/ \E r \in FailedReplies : PutRaises(1, r)
    \/ \E s \in SuccessStatus, b \in Bodies : PutReturns(1, s, b)

SpecSingle == Init /\ [][NextSingle]_vars

-----------------------------------------------------------------------------
(* Properties *)

Suffix == ".canvas"
Tail2 == "\n\nThe canvas is ready to open in Obsidian."

\* the invocations that have handed a PUT to call_put, and that PUT
Sent(i) == puts[i] # <<>>
Put(i) == puts[i][1]

\* the value of key k in the pairs of a dict
Get(pairs, k) == pairs[CHOOSE j \in 1..Len(pairs) : pairs[j][1] = k][2]

\* C1: the file title is the title itself when the title ends with ".canvas"
\* (compared case-sensitively; the suffix is not doubled) and the title followed
\* by ".canvas" otherwise, so every destination path ends with ".canvas", and
\* with title + ".canvas" when the title does not end with ".canvas".
C1_TitleSuffix ==
    \A i \in Invocations : Sent(i) =>
        LET title == args[i].title
            path == locals[i].file_path
        IN  /\ EndsWith(path, Suffix)
            /\ EndsWith(title, Suffix) =>
                  /\ EndsWith(path, "/" \o title)
                  /\ Len(path) = Len(args[i].folder) + 1 + Len(title)
            /\ ~EndsWith(title, Suffix) =>
                  /\ EndsWith(path, "/" \o title \o Suffix)
                  /\ Len(path) = Len(args[i].folder) + 1 + Len(title) + Len(Suffix)

C1_Witness ==
    \E i \in Invocations :
        /\ pc[i] = "putting"
        /\ args[i].title = "Map.canvas"
        /\ args[i].folder = "diagrams"
        /\ locals[i].file_path = "diagrams/Map.canvas"

\* C2: the destination path that is written to and reported is
\* folder + "/" + normalized title, joined as plain strings (also for an empty
\* folder and a folder ending with "/"), and the write is addressed to
\* project_url + "/resource/" + that path.
C2_PathIsPlainJoin ==
    \A i \in Invocations : Sent(i) =>
        LET title == args[i].title
            normalized == IF EndsWith(title, Suffix) THEN title ELSE title \o Suffix
            path == args[i].folder \o "/" \o normalized
        IN  /\ locals[i].file_path = path
            /\ Put(i).url = resolution[i].project_url \o "/resource/" \o path
            /\ pc[i] = "returned" =>
                  \E act \in {"Created", "Updated"} :
                      outcome[i].value = "# " \o act \o ": " \o path \o Tail2

C2_Witness ==
    \E i \in Invocations :
        /\ pc[i] = "returned"
        /\ args[i].folder = "projects/2025/"
        /\ args[i].title = "Map"
        /\ Put(i).url = "/work/resource/projects/2025//Map.canvas"

\* C3: a returned result is exactly "# " + action + ": " + destination path +
\* "\n\nThe canvas is ready to open in Obsidian.", where action is "Created"
\* exactly when the status code of the response is 201 and "Updated" for every
\* other success status.
C3_SummaryText ==
    \A i \in Invocations : pc[i] = "returned" =>
        /\ outcome[i].kind = "return"
        /\ reply[i].kind = "response"
        /\ outcome[i].value =
              "# " \o (IF reply[i].status_code = 201 THEN "Created" ELSE "Updated")
                   \o ": " \o locals[i].file_path \o Tail2

C3_Witness ==
    \E i \in Invocations :
        /\ pc[i] = "returned"
        /\ reply[i].status_code = 204
        /\ outcome[i].value =
              "# Updated: diagrams/Map.canvas\n\nThe canvas is ready to open in Obsidian."

\* C4: no PUT is handed over before the project is resolved, and an invocation
\* whose resolution fails (only when no known project is named) ends in
\* ProjectResolutionError with no PUT issued, no reply and no summary.
C4_ResolveBeforeWrite ==
    \A i \in Invocations :
        /\ resolution[i].state # "ok" => puts[i] = <<>>
        /\ pc[i] \in {"idle", "resolving"} => puts[i] = <<>>
        /\ resolution[i].state = "error" =>
              /\ pc[i] = "raised"
              /\ outcome[i] = [kind |-> "raise", value |-> "ProjectResolutionError"]
              /\ reply[i] = NoReply
              /\ written[i] = None
              /\ \/ args[i].project = None
                 \/ args[i].project[1] \notin KnownProjects

C4_Witness ==
    \E i \in Invocations :
        /\ args[i].project = Some("missing-project")
        /\ resolution[i].state = "error"
        /\ pc[i] = "raised"
        /\ \E j \in Invocations : j # i /\ pc[j] = "returned"

\* C5: an invocation hands at most one PUT to call_put, exactly one when it
\* returns a summary, and exactly one (never a second) when the PUT failed.
C5_OneWrite ==
    \A i \in Invocations :
        /\ Len(puts[i]) <= 1
        /\ pc[i] = "returned" => Len(puts[i]) = 1
        /\ reply[i].kind # "none" => Len(puts[i]) = 1

C5_Witness ==
    \E i \in Invocations :
        /\ reply[i].kind = "transport"
        /\ pc[i] = "raised"
        /\ Len(puts[i]) = 1

\* C6: a summary is returned only after a response with a success status; a
\* transport failure or a non-success status ends the invocation in the error
\* raised, never in a summary, and nothing is written for it.
C6_SummaryOnlyOnSuccess ==
    \A i \in Invocations :
        /\ outcome[i].kind = "return" =>
              /\ reply[i].kind = "response"
              /\ reply[i].status_code \in 200..299
        /\ (\/ reply[i].kind = "transport"
            \/ reply[i].kind = "response" /\ reply[i].status_code \notin 200..299) =>
              /\ pc[i] = "raised"
              /\ outcome[i].kind = "raise"
              /\ outcome[i].value \in {"TransportError", "RemoteWriteError"}

C6_Witness ==
    \E i \in Invocations :
        /\ reply[i] = Response(500, "")
        /\ pc[i] = "raised"
        /\ outcome[i].value = "RemoteWriteError"

\* C7: the text sent parses to an object with exactly the keys "nodes" and
\* "edges" whose values are the supplied sequences, element for element in the
\* supplied order, nothing dropped, merged, reordered or defaulted.
C7_BodyRoundTrip ==
    \A i \in Invocations : Sent(i) =>
        LET r == loads(Put(i).json)
        IN  /\ r.ok
            /\ r.val.t = "dict"
            /\ Len(r.val.pairs) = 2
            /\ {r.val.pairs[k][1] : k \in 1..2} = {"nodes", "edges"}
            /\ Get(r.val.pairs, "nodes") = L(args[i].nodes)
            /\ Get(r.val.pairs, "edges") = L(args[i].edges)

C7_Witness ==
    \E i \in Invocations :
        /\ pc[i] = "putting"
        /\ args[i].nodes = <<TextNode, BareNode>>
        /\ args[i].edges = <<DanglingEdge>>
        /\ loads(Put(i).json).ok

\* C8: two invocations that returned, with identical arguments and the same
\* resolved project, sent the same PUT (same address, same text), the file
\* right after each of the two writes is that text and nothing else, and their
\* summaries differ at most in the action label.
C8_IdempotentWrite ==
    \A i, j \in Invocations :
        (/\ i # j
         /\ pc[i] = "returned" /\ pc[j] = "returned"
         /\ args[i] = args[j]
         /\ resolution[i].name = resolution[j].name) =>
            /\ puts[i] = puts[j]
            /\ written[i] = Some(Put(i).json)
            /\ written[j] = written[i]
            /\ SubSeq(outcome[i].value, 10, Len(outcome[i].value))
                  = SubSeq(outcome[j].value, 10, Len(outcome[j].value))
            /\ {SubSeq(outcome[k].value, 1, 9) : k \in {i, j}}
                  \subseteq {"# Created", "# Updated"}

C8_Witness ==
    \E i, j \in Invocations :
        /\ i # j
        /\ pc[i] = "returned" /\ pc[j] = "returned"
        /\ args[i] = args[j]
        /\ args[i].nodes # <<>>
        /\ resolution[i].name = resolution[j].name
        /\ SubSeq(outcome[i].value, 1, 9) = "# Created"
        /\ SubSeq(outcome[j].value, 1, 9) = "# Updated"

\* C9: every response with a success status, whatever its body, ends the
\* invocation in the summary: no write is accepted and then reported as failed.
C9_SuccessStatusReturns ==
    \A i \in Invocations :
        (reply[i].kind = "response" /\ reply[i].status_code \in 200..299) =>
            /\ pc[i] = "returned"
            /\ outcome[i].kind = "return"

\* C10: whatever the interleaving and whatever the session's active project has
\* become, the PUT of an invocation is addressed by the project resolved for
\* that invocation, carries the path and the document of its own arguments, and
\* its summary names its own path and the action of its own response.
C10_Isolation ==
    \A i \in Invocations : Sent(i) =>
        LET title == args[i].title
            path == args[i].folder \o "/"
                       \o (IF EndsWith(title, Suffix) THEN title ELSE title \o Suffix)
        IN  /\ resolution[i].state = "ok"
            /\ Put(i).url = "/" \o resolution[i].name \o "/resource/" \o path
            /\ Put(i).json = dumps(D(<< <<"nodes", L(args[i].nodes)>>,
                                        <<"edges", L(args[i].edges)>> >>))
            /\ pc[i] = "returned" =>
                  outcome[i].value =
                      "# " \o (IF reply[i].status_code = 201 THEN "Created"
                               ELSE "Updated") \o ": " \o path \o Tail2

C10_Witness ==
    \E i, j \in Invocations :
        /\ i # j
        /\ pc[i] = "putting" /\ pc[j] = "returned"
        /\ args[i].project = None /\ resolution[i].name = "main"
        /\ session_project = Some("work")
        /\ resolution[j].name = "work"
        /\ Put(i).json # Put(j).json
        /\ locals[i].file_path = locals[j].file_path

====
